---- MODULE Spec2Model ----
(***************************************************************************)
(* Model of PRPs/scripts/prp_runner.py: one run of main().                 *)
(*                                                                         *)
(* Text is modelled as a sequence of one-character strings; the long fixed *)
(* literals of the script (META_HEADER, the banners, the instruction       *)
(* lines) are single elements carrying their source text.  A path is the   *)
(* pair (root, parts) that pathlib keeps for a POSIX path.                 *)
(***************************************************************************)
EXTENDS Integers, Sequences, FiniteSets, TLC

VARIABLES
    args_prp,         \* args.prp: [given, value]; given = FALSE is Python's None
    args_prp_path,    \* args.prp_path, likewise
    args_interactive, \* args.interactive
    fileKind,         \* what the file system holds at the resolved path
    fileBytes,        \* the content of that file when it is a regular file
    pc,               \* position of the run inside main()
    prp_path,         \* local prp_path of main()
    prompt,           \* local prompt of main()
    stdout,           \* everything written to sys.stdout so far
    stderr,           \* everything written to sys.stderr so far
    exitCode,         \* process exit status, Running until the process ends
    fsOps             \* file system calls made so far, in order

vars == <<args_prp, args_prp_path, args_interactive, fileKind, fileBytes, pc,
          prp_path, prompt, stdout, stderr, exitCode, fsOps>>

----------------------------------------------------------------------------
(* Bounds *)

MaxArgLen == 2
MaxFileLen == 2

----------------------------------------------------------------------------
(* Characters and strings *)

CR == "\r"
LF == "\n"
SEP == "/"
\* a character the encoding of sys.stdout cannot represent
NonEncodable == "U+FFFD"

ArgChars == {SEP, ".", "a"}
FileChars == {CR, LF, "a", NonEncodable}

RECURSIVE StringsUpTo(_, _)
StringsUpTo(chars, n) ==
    IF n = 0 THEN {<<>>}
    ELSE LET shorter == StringsUpTo(chars, n - 1)
         IN  shorter \cup {Append(s, c) : s \in shorter, c \in chars}

NoneArg == [given |-> FALSE, value |-> <<>>]
StrArg(s) == [given |-> TRUE, value |-> s]
ArgValues == {NoneArg} \cup {StrArg(s) : s \in StringsUpTo(ArgChars, MaxArgLen)}

\* Python truthiness of an Optional[str]: None and "" are both false
Truthy(arg) == arg.given /\ arg.value # <<>>

----------------------------------------------------------------------------
(* pathlib.Path on POSIX *)

NoPath == [root |-> "none", parts |-> <<>>]

LeadingSeps(s) ==
    IF \A i \in 1..Len(s) : s[i] = SEP THEN Len(s)
    ELSE (CHOOSE i \in 1..Len(s) : s[i] # SEP /\ \A j \in 1..(i - 1) : s[j] = SEP) - 1

\* a component is kept unless it is empty or "."
PushPart(acc, cur) == IF cur = <<>> \/ cur = <<".">> THEN acc ELSE Append(acc, cur)

RECURSIVE SplitParts(_, _, _)
SplitParts(s, cur, acc) ==
    IF s = <<>> THEN PushPart(acc, cur)
    ELSE IF Head(s) = SEP THEN SplitParts(Tail(s), <<>>, PushPart(acc, cur))
    ELSE SplitParts(Tail(s), Append(cur, Head(s)), acc)

\* Path(s): exactly two leading slashes are kept, any other number is one root
Path(s) ==
    LET n == LeadingSeps(s)
    IN  [root  |-> IF n = 0 THEN "" ELSE IF n = 2 THEN "//" ELSE "/",
         parts |-> SplitParts(s, <<>>, <<>>)]

RECURSIVE JoinParts(_)
JoinParts(parts) ==
    IF parts = <<>> THEN <<>>
    ELSE IF Len(parts) = 1 THEN parts[1]
    ELSE parts[1] \o <<SEP>> \o JoinParts(Tail(parts))

RootStr(root) == IF root = "" THEN <<>> ELSE IF root = "/" THEN <<SEP>> ELSE <<SEP, SEP>>

\* str(path), as formatted by {prp_path} in an f-string
PathStr(p) ==
    IF p.root = "" /\ p.parts = <<>> THEN <<".">>
    ELSE RootStr(p.root) \o JoinParts(p.parts)

\* base / s : an absolute right operand replaces the left one
PathJoin(base, s) ==
    LET q == Path(s)
    IN  IF q.root # "" THEN q
        ELSE [root |-> base.root, parts |-> base.parts \o q.parts]

ROOT == [root |-> "/", parts |-> << <<"P", "R", "P", "s">> >>]

MD == <<".", "m", "d">>

----------------------------------------------------------------------------
(* Fixed text of the script *)

META_HEADER == <<"Ingest and understand the Product Requirement Prompt (PRP) below in detail. [...] Now, implement the PRP below:">>

BANNER_LOADED == <<"=== PRP LOADED FOR CURSOR ===">>
BANNER_INSTRUCTIONS == <<LF, "=== INSTRUCTIONS ===">>
INSTRUCTION_1 == <<"1. Copy the PRP content above">>
INSTRUCTION_2 == <<"2. Paste it into Cursor">>
INSTRUCTION_3 == <<"3. Follow the workflow guidance to implement the PRP">>
INSTRUCTION_4 == <<"4. Use the validation commands to verify your implementation">>

USAGE == <<"usage: prp_runner.py [-h] [--prp PRP] [--prp-path PRP_PATH] [--interactive]", LF>>
USAGE_ERROR == <<"prp_runner.py: error: ", "Must provide either --prp or --prp-path", LF>>

Running == -1

----------------------------------------------------------------------------
(* resolve_prp_path *)

\* variant: the key branch forgets the ".md" suffix
resolve_prp_path_NoSuffix(prp_arg, prp_path_arg) ==
    IF Truthy(prp_path_arg)
    THEN [ok |-> TRUE, path |-> Path(prp_path_arg.value), msg |-> <<>>]
    ELSE IF Truthy(prp_arg)
    THEN [ok |-> TRUE, path |-> PathJoin(ROOT, prp_arg.value), msg |-> <<>>]
    ELSE [ok |-> FALSE, path |-> NoPath,
          msg |-> <<"Must provide either --prp or --prp-path">>]

resolve_prp_path(prp_arg, prp_path_arg) ==
    IF Truthy(prp_path_arg)
    THEN [ok |-> TRUE, path |-> Path(prp_path_arg.value), msg |-> <<>>]
    ELSE IF Truthy(prp_arg)
    THEN [ok |-> TRUE, path |-> PathJoin(ROOT, prp_arg.value \o MD), msg |-> <<>>]
    ELSE [ok |-> FALSE, path |-> NoPath,
          msg |-> <<"Must provide either --prp or --prp-path">>]

----------------------------------------------------------------------------
(* load_prp_content *)

FileKinds == {"missing", "regular", "directory", "unreadable", "undecodable"}

\* variant: Path.is_file() in place of Path.exists()
Exists_IsFile(kind) == kind \in {"regular", "unreadable", "undecodable"}

\* Path.exists()
Exists(kind) == kind # "missing"

\* variant: the file is read with newline="" and nothing is translated
UniversalNewlines_Verbatim(bytes) == bytes

\* text mode with newline=None: CR LF and a lone CR are both read as LF
RECURSIVE UniversalNewlines(_)
UniversalNewlines(bytes) ==
    IF bytes = <<>> THEN <<>>
    ELSE IF Head(bytes) = CR
    THEN IF Len(bytes) >= 2 /\ bytes[2] = LF
         THEN <<LF>> \o UniversalNewlines(Tail(Tail(bytes)))
         ELSE <<LF>> \o UniversalNewlines(Tail(bytes))
    ELSE <<Head(bytes)>> \o UniversalNewlines(Tail(bytes))

Quoted(s) == <<"'">> \o s \o <<"'">>

\* Path.read_text(encoding="utf-8")
read_text(path, kind, bytes) ==
    CASE kind = "regular" ->
           [ok |-> TRUE, text |-> UniversalNewlines(bytes), msg |-> <<>>]
      [] kind = "directory" ->
           [ok |-> FALSE, text |-> <<>>,
            msg |-> <<"[Errno 21] Is a directory: ">> \o Quoted(PathStr(path))]
      [] kind = "unreadable" ->
           [ok |-> FALSE, text |-> <<>>,
            msg |-> <<"[Errno 13] Permission denied: ">> \o Quoted(PathStr(path))]
      [] kind = "undecodable" ->
           [ok |-> FALSE, text |-> <<>>,
            msg |-> <<"'utf-8' codec can't decode byte">>]
      [] OTHER ->
           [ok |-> FALSE, text |-> <<>>,
            msg |-> <<"[Errno 2] No such file or directory: ">> \o Quoted(PathStr(path))]

\* variant: the message leaves the path out
NotFoundMessage_NoPath(path) == <<"PRP file not found: ">>

NotFoundMessage(path) == <<"PRP file not found: ">> \o PathStr(path)

\* the outcome of load_prp_content and the file system calls it makes
load_prp_content(path, kind, bytes) ==
    IF ~Exists(kind)
    THEN [ok |-> FALSE, prompt |-> <<>>, msg |-> NotFoundMessage(path),
          ops |-> <<"exists">>]
    ELSE LET r == read_text(path, kind, bytes)
         IN  IF r.ok
             THEN [ok |-> TRUE, prompt |-> META_HEADER \o r.text, msg |-> <<>>,
                   ops |-> <<"exists", "read_text">>]
             ELSE [ok |-> FALSE, prompt |-> <<>>, msg |-> r.msg,
                   ops |-> <<"exists", "read_text">>]

----------------------------------------------------------------------------
(* sys.stdout / sys.stderr *)

\* TextIOWrapper.write encodes the whole string before buffering any of it
Encodable(s) == \A i \in 1..Len(s) : s[i] # NonEncodable

EncodeErrorMessage == <<"codec can't encode character">>

\* variant: print(s, end="")
WriteLine_NoNewline(out, s) == out \o s

\* print(s): the text, then the line terminator
WriteLine(out, s) == out \o s \o <<LF>>

\* variant: the handler reports the error and exits with status 0
Fail_ExitZero(msg) ==
    /\ stderr' = WriteLine(stderr, <<"Error: ">> \o msg)
    /\ exitCode' = 0
    /\ pc' = "done"

\* except Exception as e: print(f"Error: {e}", file=sys.stderr); sys.exit(1)
Fail(msg) ==
    /\ stderr' = WriteLine(stderr, <<"Error: ">> \o msg)
    /\ exitCode' = 1
    /\ pc' = "done"

----------------------------------------------------------------------------
(* Initial states: the command line and the file system the run starts in *)

\* what the run will look up, known from the command line alone
Target == resolve_prp_path(args_prp, args_prp_path)

\* ".", "/", ".." and "x/.." never name a regular file
NamesDirectory(p) == p.parts = <<>> \/ p.parts[Len(p.parts)] = <<".", ".">>

Init ==
    /\ args_prp \in ArgValues
    /\ args_prp_path \in ArgValues
    /\ args_interactive \in BOOLEAN
    /\ fileKind \in FileKinds
    /\ fileBytes \in StringsUpTo(FileChars, MaxFileLen)
    /\ fileKind # "regular" => fileBytes = <<>>
    /\ Target.ok /\ NamesDirectory(Target.path) => fileKind \in {"missing", "directory"}
    /\ Target.ok /\ Target.path.parts = <<>> => fileKind = "directory"
    /\ pc = "parse_args"
    /\ prp_path = NoPath
    /\ prompt = <<>>
    /\ stdout = <<>>
    /\ stderr = <<>>
    /\ exitCode = Running
    /\ fsOps = <<>>

----------------------------------------------------------------------------
(* main *)

\* variant: main does not check the two flags before the try block
ParseArgs_NoCheck ==
    /\ pc = "parse_args"
    /\ pc' = "resolve"
    /\ UNCHANGED <<args_prp, args_prp_path, args_interactive, fileKind, fileBytes,
                   prp_path, prompt, stdout, stderr, exitCode, fsOps>>

\* args = parser.parse_args(); if not args.prp and not args.prp_path: parser.error(...)
ParseArgs ==
    /\ pc = "parse_args"
    /\ IF ~Truthy(args_prp) /\ ~Truthy(args_prp_path)
       THEN /\ stderr' = stderr \o USAGE \o USAGE_ERROR
            /\ exitCode' = 2
            /\ pc' = "done"
       ELSE /\ pc' = "resolve"
            /\ UNCHANGED <<stderr, exitCode>>
    /\ UNCHANGED <<args_prp, args_prp_path, args_interactive, fileKind, fileBytes,
                   prp_path, prompt, stdout, fsOps>>

\* prp_path = resolve_prp_path(args.prp, args.prp_path)
Resolve ==
    /\ pc = "resolve"
    /\ LET r == resolve_prp_path(args_prp, args_prp_path)
       IN  IF r.ok
           THEN /\ prp_path' = r.path
                /\ pc' = "load"
                /\ UNCHANGED <<stderr, exitCode>>
           ELSE /\ Fail(r.msg)
                /\ UNCHANGED prp_path
    /\ UNCHANGED <<args_prp, args_prp_path, args_interactive, fileKind, fileBytes,
                   prompt, stdout, fsOps>>

\* prompt = load_prp_content(prp_path)
Load ==
    /\ pc = "load"
    /\ LET r == load_prp_content(prp_path, fileKind, fileBytes)
       IN  /\ fsOps' = fsOps \o r.ops
           /\ IF r.ok
              THEN /\ prompt' = r.prompt
                   /\ pc' = IF args_interactive THEN "print_loaded" ELSE "print_headless"
                   /\ UNCHANGED <<stderr, exitCode>>
              ELSE /\ Fail(r.msg)
                   /\ UNCHANGED prompt
    /\ UNCHANGED <<args_prp, args_prp_path, args_interactive, fileKind, fileBytes,
                   prp_path, stdout>>

\* one print(text) of run_cursor_model at position here; next is where it goes on
EmitStep(here, text, next, code) ==
    /\ pc = here
    /\ IF Encodable(text)
       THEN /\ stdout' = WriteLine(stdout, text)
            /\ pc' = next
            /\ exitCode' = code
            /\ UNCHANGED stderr
       ELSE /\ Fail(EncodeErrorMessage)
            /\ UNCHANGED stdout
    /\ UNCHANGED <<args_prp, args_prp_path, args_interactive, fileKind, fileBytes,
                   prp_path, prompt, fsOps>>

\* headless: print(prompt), then main returns
EmitHeadless == EmitStep("print_headless", prompt, "done", 0)

\* interactive: the seven prints in order, then main returns
EmitLoaded == EmitStep("print_loaded", BANNER_LOADED, "print_prompt", Running)
EmitPrompt == EmitStep("print_prompt", prompt, "print_instructions", Running)
\* variant: the first instruction line is left out
EmitInstructions_SkipsOne ==
    EmitStep("print_instructions", BANNER_INSTRUCTIONS, "print_2", Running)
EmitInstructions == EmitStep("print_instructions", BANNER_INSTRUCTIONS, "print_1", Running)
EmitInstruction1 == EmitStep("print_1", INSTRUCTION_1, "print_2", Running)
EmitInstruction2 == EmitStep("print_2", INSTRUCTION_2, "print_3", Running)
EmitInstruction3 == EmitStep("print_3", INSTRUCTION_3, "print_4", Running)
EmitInstruction4 == EmitStep("print_4", INSTRUCTION_4, "done", 0)

Next ==
    \/ ParseArgs
    \/ Resolve
    \/ Load
    \/ EmitHeadless
    \/ EmitLoaded
    \/ EmitPrompt
    \/ EmitInstructions
    \/ EmitInstruction1
    \/ EmitInstruction2
    \/ EmitInstruction3
    \/ EmitInstruction4

Spec == Init /\ [][Next]_vars

\* the interpreter runs the single thread until the process exits
FairSpec == Spec /\ WF_vars(Next)

----------------------------------------------------------------------------
(* Vocabulary of the properties *)

IsPrefix(a, b) == Len(a) <= Len(b) /\ SubSeq(b, 1, Len(a)) = a

Contains(hay, needle) ==
    \E i \in 0..(Len(hay) - Len(needle)) : SubSeq(hay, i + 1, i + Len(needle)) = needle

Resolved == prp_path # NoPath
Loaded == prompt # <<>>
Exited == pc = "done"
NeitherSupplied == ~args_prp.given /\ ~args_prp_path.given
BothSupplied == args_prp.given /\ args_prp_path.given

\* the text of a file with every CR LF pair and every lone CR turned into LF,
\* stated position by position
NewlineTranslated(bytes) ==
    LET kept == {i \in 1..Len(bytes) :
                    ~(bytes[i] = CR /\ i < Len(bytes) /\ bytes[i + 1] = LF)}
        at(j) == CHOOSE i \in kept : Cardinality({m \in kept : m < i}) = j - 1
    IN  [j \in 1..Cardinality(kept) |->
            IF bytes[at(j)] = CR THEN LF ELSE bytes[at(j)]]

\* <root>/k.md as a command-line string
RootedName(k) == <<SEP, "P", "R", "P", "s", SEP>> \o k \o <<".", "m", "d">>

\* a feature key: not empty and not an absolute path
ValidKey(k) == k # <<>> /\ k[1] # SEP

\* the complete standard output of a successful interactive run
InteractiveOutput(text) ==
    <<"=== PRP LOADED FOR CURSOR ===", LF>> \o text \o <<LF>>
    \o <<LF, "=== INSTRUCTIONS ===", LF>>
    \o <<"1. Copy the PRP content above", LF>>
    \o <<"2. Paste it into Cursor", LF>>
    \o <<"3. Follow the workflow guidance to implement the PRP", LF>>
    \o <<"4. Use the validation commands to verify your implementation", LF>>

----------------------------------------------------------------------------
(* C1 *)

\* C1: when both --prp and --prp-path are supplied, whatever strings they
\* carry, the path resolve_prp_path returns is the explicit path and not
\* the key-derived one.
C1_ExplicitPathAlwaysWins ==
    (BothSupplied /\ Resolved) => prp_path = Path(args_prp_path.value)

----------------------------------------------------------------------------
(* C2 *)

\* C2 as stated: after a successful load the Composed Prompt is META_HEADER
\* followed by the file's content character for character, CR LF included.
C2_ExactFileContent ==
    Loaded => prompt = META_HEADER \o fileBytes

\* C2 amended: after a successful load the Composed Prompt is META_HEADER
\* followed by the file's text with every CR LF pair and every lone CR read
\* as one LF and every other character unchanged (so a file without CR,
\* the empty file included, is reproduced character for character), and
\* loading the unchanged file again yields the same Composed Prompt.
C2_HeaderThenTranslatedContent ==
    Loaded =>
        /\ prompt = META_HEADER \o NewlineTranslated(fileBytes)
        /\ (\A i \in 1..Len(fileBytes) : fileBytes[i] # CR)
              => prompt = META_HEADER \o fileBytes
        /\ load_prp_content(prp_path, fileKind, fileBytes).prompt = prompt

C2_Witness ==
    Loaded /\ fileBytes = <<CR, LF>> /\ prompt = META_HEADER \o <<LF>>

----------------------------------------------------------------------------
(* C3 *)

\* C3: a run that ends in an error (exit status 1 or 2) has written nothing
\* to standard output; standard output at exit is complete or empty.
C3_AllOrNothingOutput ==
    (Exited /\ exitCode \in {1, 2}) => stdout = <<>>

----------------------------------------------------------------------------
(* C4 *)

C4_NoFileAccessNoOutput ==
    NeitherSupplied =>
        /\ fsOps = <<>>
        /\ stdout = <<>>
        /\ prp_path = NoPath
        /\ Exited => (exitCode = 2 /\ stderr = USAGE \o USAGE_ERROR)

\* C4: with neither --prp nor --prp-path the run always ends with the
\* parser's usage error, exit status 2, and at no moment of the run has a
\* file been checked or read or anything been written to standard output.
C4_NeitherSuppliedUsageError ==
    /\ []C4_NoFileAccessNoOutput
    /\ (NeitherSupplied ~> (Exited /\ exitCode = 2))

C4_Witness ==
    NeitherSupplied /\ Exited /\ exitCode = 2

----------------------------------------------------------------------------
(* C5 *)

C5_NotFoundReport ==
    (Resolved /\ fileKind = "missing") =>
        /\ \A i \in 1..Len(fsOps) : fsOps[i] # "read_text"
        /\ Exited =>
              /\ exitCode = 1
              /\ Contains(stderr, <<"Error: ", "PRP file not found: ">> \o PathStr(prp_path))

\* C5: a run whose resolved path does not exist exits with status 1, the
\* error stream holds "Error: PRP file not found: " followed by that path,
\* and the file is never read.
C5_MissingFileExitsOne ==
    /\ []C5_NotFoundReport
    /\ ((Resolved /\ fileKind = "missing") ~> (Exited /\ exitCode = 1))

C5_Witness ==
    /\ Exited /\ Resolved /\ fileKind = "missing"
    /\ fsOps = <<"exists">>
    /\ Len(prp_path.parts) = 2

----------------------------------------------------------------------------
(* C6 *)

\* C6 as stated: whenever the resolved path is missing, is a directory or
\* cannot be read, the load fails with the "not found" error naming the path.
C6_NotFoundForEveryUnusableFile ==
    (Exited /\ Resolved /\ fileKind \in {"missing", "directory", "unreadable"})
        => Contains(stderr, <<"PRP file not found: ">> \o PathStr(prp_path))

\* C6 amended: the load fails with the "not found" error, whose message
\* includes the attempted location, whenever the resolved path does not
\* exist; a path that exists but is a directory or cannot be read fails
\* with the error of the read instead, whose message also includes the
\* location and is not the "not found" error.
C6_NotFoundOnlyWhenMissing ==
    (Exited /\ Resolved /\ fileKind \in {"missing", "directory", "unreadable"}) =>
        /\ exitCode = 1
        /\ prompt = <<>>
        /\ Contains(stderr, PathStr(prp_path))
        /\ Contains(stderr, <<"PRP file not found: ">>) <=> fileKind = "missing"
        /\ fileKind = "missing"
              => Contains(stderr, <<"PRP file not found: ">> \o PathStr(prp_path))
        /\ fileKind # "missing" => fsOps = <<"exists", "read_text">>

C6_Witness ==
    Exited /\ Resolved /\ fileKind = "directory" /\ fsOps = <<"exists", "read_text">>

----------------------------------------------------------------------------
(* C7 *)

\* C7: a successful headless run has written to standard output exactly
\* the Composed Prompt followed by one newline, and exits with status 0;
\* before that print nothing is on standard output.
C7_HeadlessOutputIsPromptAndNewline ==
    ~args_interactive =>
        /\ (Exited /\ exitCode = 0) =>
              /\ Loaded
              /\ stdout = prompt \o <<LF>>
              /\ stdout = load_prp_content(prp_path, fileKind, fileBytes).prompt \o <<LF>>
        /\ ~(Exited /\ exitCode = 0) => stdout = <<>>
        /\ (Exited /\ Loaded /\ Encodable(prompt)) => exitCode = 0

C7_Witness ==
    ~args_interactive /\ Exited /\ exitCode = 0 /\ Len(fileBytes) = MaxFileLen

----------------------------------------------------------------------------
(* C8 *)

\* C8: in interactive mode standard output is at every moment a prefix of
\* banner, Composed Prompt, instructions banner, instruction lines 1 to 4,
\* and a successful run has written all of it; the static lines are the
\* same for every prompt.
C8_InteractiveOutputOrder ==
    args_interactive =>
        /\ IsPrefix(stdout, InteractiveOutput(prompt))
        /\ (Exited /\ exitCode = 0) => stdout = InteractiveOutput(prompt)
        /\ (Exited /\ exitCode = 0) => Loaded
        /\ pc \in {"print_instructions", "print_1", "print_2", "print_3", "print_4"}
              => Contains(stdout, <<LF>> \o prompt \o <<LF>>)

C8_Witness ==
    /\ args_interactive /\ Exited /\ exitCode = 0
    /\ Len(fileBytes) = MaxFileLen
    /\ Len(stdout) = Len(prompt) + 14

----------------------------------------------------------------------------
(* C9 *)

UsageFailure == ~Truthy(args_prp) /\ ~Truthy(args_prp_path)
LoadFailure == ~UsageFailure /\ fileKind # "regular"
EmitFailure ==
    /\ ~UsageFailure
    /\ fileKind = "regular"
    /\ \E i \in 1..Len(fileBytes) : fileBytes[i] = NonEncodable

C9_ExitStatusMatchesFailure ==
    /\ exitCode \in {Running, 0, 1, 2}
    /\ Exited <=> exitCode # Running
    /\ Exited =>
          /\ exitCode = 2 <=> UsageFailure
          /\ exitCode = 1 <=> (LoadFailure \/ EmitFailure)
          /\ exitCode = 0 <=> ~(UsageFailure \/ LoadFailure \/ EmitFailure)
          /\ exitCode = 0 => stderr = <<>>
          /\ exitCode = 2 => stderr = USAGE \o USAGE_ERROR
          /\ exitCode = 1 =>
                /\ Len(stderr) >= 3
                /\ stderr[1] = "Error: "
                /\ stderr[Len(stderr)] = LF

\* C9: every run terminates; a failure ends it with a non-zero status after
\* a diagnostic on the error stream (2 with the usage message, 1 with
\* "Error: <message>"), and status 0 occurs only when nothing failed.
C9_EveryRunTerminatesWithDiagnostic ==
    /\ []C9_ExitStatusMatchesFailure
    /\ <>Exited

C9_Witness ==
    Exited /\ exitCode = 1 /\ EmitFailure /\ args_interactive

----------------------------------------------------------------------------
(* C10 *)

\* C10: for a valid feature key k, the run given only --prp k resolves the
\* path that --prp-path <root>/k.md alone resolves to, so it loads the same
\* file and composes the same prompt.
C10_KeyEqualsRootedPath ==
    (ValidKey(args_prp.value) /\ ~args_prp_path.given) =>
        LET other == resolve_prp_path(NoneArg, StrArg(RootedName(args_prp.value)))
        IN  /\ other.ok
            /\ Resolved => prp_path = other.path
            /\ Resolved => PathStr(prp_path) = PathStr(Path(RootedName(args_prp.value)))
            /\ Loaded => prompt = load_prp_content(other.path, fileKind, fileBytes).prompt

C10_Witness ==
    /\ ValidKey(args_prp.value) /\ ~args_prp_path.given
    /\ Loaded /\ Exited
    /\ Len(args_prp.value) = MaxArgLen

====
